---- MODULE Spec2Model ----
(***************************************************************************)
(* Model of the multi-threaded web page downloader (src/main.cpp):         *)
(* the ThreadPool (worker loop, enqueue, destructor), downloadPage's       *)
(* retry loop with its RAII handles, the atomic progress counter, and the  *)
(* main / downloadAll orchestration.                                       *)
(***************************************************************************)
EXTENDS Integers, Sequences, FiniteSets, TLC

\* ---- bounds of the model ------------------------------------------------
\* largest number of accepted URLs loadURLs returns
MaxUrls == 2
\* largest value std::thread::hardware_concurrency() reports
MaxHW == 1

\* ---- program constants --------------------------------------------------
MAX_RETRIES == 3
BackoffUnitMs == 100
MinThreads == 4
TasksPerThread == 5
\* main.cpp:269  "* 100", in millionths of a percent (std::to_string(double)
\* prints six decimals)
PercentUnit == 100000000

VARIABLES
    \* main thread
    mainPc,         \* position of main / downloadAll / ~ThreadPool
    exitCode,       \* value returned by main (-1 while running)
    urlsN,          \* urls.size(): number of accepted URLs
    hw,             \* std::thread::hardware_concurrency()
    NUM_THREADS,    \* downloadAll's worker count
    i,              \* downloadAll's enqueue loop index (0-based)
    j,              \* number of workers the destructor has joined
    logOpen,        \* Logger::logFile_ is open
    latePc,         \* position of a second caller of enqueue ("idle": none)
    queuedAtStop,   \* what tasks_ held when ~ThreadPool set stop_
    \* ThreadPool
    stop_,
    tasks_,         \* the queue; task k downloads urls[k-1] to page<k>.html
    queue_mutex_,   \* 0 free, MainThread, or the worker that holds it
    poolErrs,       \* "enqueue on stopped ThreadPool" error entries
    \* workers
    wpc,            \* worker -> position in the worker loop / downloadPage
    wtask,          \* worker -> task it is executing (0: none)
    retries,        \* worker -> downloadPage's local retries
    res,            \* worker -> downloadPage's local res
    current_completed, \* worker -> value returned by its atomic increment
    \* shared progress counter and log
    g_completed_downloads,
    dlLog,          \* the "Downloaded k/N (p%)" entries, in log order
    \* per-task observations
    deq,            \* task -> times it was removed from the queue
    deqLog,         \* tasks in the order the workers removed them
    iters,          \* task -> do-loop iterations begun
    fetches,        \* task -> curl_easy_perform calls
    fails,          \* task -> curl_easy_perform calls that did not return CURLE_OK
    sleeps,         \* task -> backoff delays slept, in order
    retryLogs,      \* task -> "Retrying ..." entries
    errLogs,        \* task -> error entries
    ended,          \* task -> how downloadPage returned
    abortIter,      \* task -> iteration in which acquisition failed (0: none)
    curlAcq, curlRel, fileAcq, fileRel  \* task -> handle acquire/release counts

mainVars == <<mainPc, exitCode, urlsN, hw, logOpen, latePc, queuedAtStop, NUM_THREADS, i, j>>
poolVars == <<stop_, tasks_, queue_mutex_, poolErrs>>
workerVars == <<wpc, wtask, retries, res, current_completed>>
sharedVars == <<g_completed_downloads, dlLog>>
handleVars == <<curlAcq, curlRel, fileAcq, fileRel>>
taskVars == <<deq, deqLog, iters, fetches, fails, sleeps, retryLogs, errLogs, ended, abortIter>>
vars == <<mainVars, poolVars, workerVars, sharedVars, handleVars, taskVars>>

MainThread == -1
Tasks == 1..urlsN
Workers == 1..NUM_THREADS
\* every id a worker can have: NUM_THREADS <= 2 * hardware_concurrency()
WorkerIds == 1..(2 * MaxHW)

Min(a, b) == IF a < b THEN a ELSE b
Max(a, b) == IF a > b THEN a ELSE b

\* main.cpp:304  min(max(4U, (unsigned)(urls.size() / 5)), hardware_concurrency() * 2)
\* (unsigned 32-bit arithmetic; no operand comes near 2^32 within the bounds,
\* so nothing wraps)
NumThreads(n, h) ==
    Min(Max(MinThreads, n \div TasksPerThread), h * 2)

\* main.cpp:261  milliseconds(100 * retries)
Backoff(r) == BackoffUnitMs * r

\* a retry test that lets the ceiling itself through
RetryLoggedOffByOne(r) == r <= MAX_RETRIES

\* main.cpp:259  if (retries < MAX_RETRIES)
RetryLogged(r) == r < MAX_RETRIES

\* a loop test that lets the ceiling itself through
LoopAgainOffByOne(r) == r <= MAX_RETRIES

\* main.cpp:263  while (retries < MAX_RETRIES)
LoopAgain(r) == r < MAX_RETRIES

\* main.cpp:160  the wait predicate
WaitPredicate == stop_ \/ tasks_ # << >>

Init ==
    /\ mainPc = "open"
    /\ exitCode = -1
    /\ logOpen = FALSE
    /\ latePc = "idle"
    /\ queuedAtStop = << >>
    /\ urlsN \in 0..MaxUrls
    /\ hw \in 0..MaxHW
    /\ NUM_THREADS = 0
    /\ i = 0
    /\ j = 0
    /\ stop_ = FALSE
    /\ tasks_ = << >>
    /\ queue_mutex_ = 0
    /\ poolErrs = 0
    /\ wpc = << >>
    /\ wtask = << >>
    /\ retries = << >>
    /\ res = << >>
    /\ current_completed = << >>
    /\ g_completed_downloads = 0
    /\ dlLog = << >>
    /\ deq = [t \in Tasks |-> 0]
    /\ deqLog = << >>
    /\ iters = [t \in Tasks |-> 0]
    /\ fetches = [t \in Tasks |-> 0]
    /\ fails = [t \in Tasks |-> 0]
    /\ sleeps = [t \in Tasks |-> << >>]
    /\ retryLogs = [t \in Tasks |-> 0]
    /\ errLogs = [t \in Tasks |-> 0]
    /\ ended = [t \in Tasks |-> "no"]
    /\ abortIter = [t \in Tasks |-> 0]
    /\ curlAcq = [t \in Tasks |-> 0]
    /\ curlRel = [t \in Tasks |-> 0]
    /\ fileAcq = [t \in Tasks |-> 0]
    /\ fileRel = [t \in Tasks |-> 0]


\* ---- condition variable (main.cpp:208) ------------------------------------
Blocked == {w \in Workers : wpc[w] = "blocked"}

\* condition_.notify_one(): wakes one blocked worker, if there is one; the
\* woken worker has to re-acquire queue_mutex_ before wait() returns
NotifyOne ==
    IF Blocked = {} THEN {wpc}
    ELSE {[wpc EXCEPT ![w] = "lock"] : w \in Blocked}

\* a close that wakes a single blocked worker
NotifyAllWakesOne ==
    IF Blocked = {} THEN {wpc}
    ELSE {[wpc EXCEPT ![w] = "lock"] : w \in Blocked}

\* condition_.notify_all(): wakes every blocked worker
NotifyAll ==
    {[w \in Workers |-> IF wpc[w] = "blocked" THEN "lock" ELSE wpc[w]]}

\* ---- main, downloadAll ----------------------------------------------------
\* an openLogFile whose failure ends the process with exit code 1
MainOpenLogFatal ==
    /\ mainPc = "open"
    /\ \E ok \in BOOLEAN :
         /\ logOpen' = ok
         /\ mainPc' = IF ok THEN "load" ELSE "exited"
         /\ exitCode' = IF ok THEN exitCode ELSE 1
    /\ UNCHANGED <<urlsN, hw, latePc, queuedAtStop, NUM_THREADS, i, j>>
    /\ UNCHANGED <<poolVars, workerVars, sharedVars, handleVars, taskVars>>

\* main.cpp:323, 107-116  openLogFile: the file opens or it does not; a failure
\* is reported on std::cerr and main goes on
MainOpenLog ==
    /\ mainPc = "open"
    /\ logOpen' \in BOOLEAN
    /\ mainPc' = "load"
    /\ UNCHANGED <<exitCode, urlsN, hw, latePc, queuedAtStop, NUM_THREADS, i, j>>
    /\ UNCHANGED <<poolVars, workerVars, sharedVars, handleVars, taskVars>>

\* a main that does not test urls.empty() and always goes on to downloadAll
MainLoadNoCheck ==
    /\ mainPc = "load"
    /\ mainPc' = "pool"
    /\ UNCHANGED <<exitCode, urlsN, hw, logOpen, latePc, queuedAtStop, NUM_THREADS, i, j>>
    /\ UNCHANGED <<poolVars, workerVars, sharedVars, handleVars, taskVars>>

\* main.cpp:327-332  loadURLs returned urlsN accepted URLs
MainLoad ==
    /\ mainPc = "load"
    /\ IF urlsN = 0
       THEN mainPc' = "exited" /\ exitCode' = 1
       ELSE mainPc' = "pool" /\ exitCode' = exitCode
    /\ UNCHANGED <<urlsN, hw, logOpen, latePc, queuedAtStop, NUM_THREADS, i, j>>
    /\ UNCHANGED <<poolVars, workerVars, sharedVars, handleVars, taskVars>>

\* main.cpp:304-307, 152-173  size the pool and spawn the workers
MainStartPool ==
    /\ mainPc = "pool"
    /\ NUM_THREADS' = NumThreads(urlsN, hw)
    /\ wpc' = [w \in 1..NUM_THREADS' |-> "lock"]
    /\ wtask' = [w \in 1..NUM_THREADS' |-> 0]
    /\ retries' = [w \in 1..NUM_THREADS' |-> 0]
    /\ res' = [w \in 1..NUM_THREADS' |-> "none"]
    /\ current_completed' = [w \in 1..NUM_THREADS' |-> 0]
    /\ stop_' = FALSE
    /\ i' = 0
    /\ mainPc' = IF 0 < urlsN THEN "enq_lock" ELSE "dtor_lock"
    /\ UNCHANGED <<exitCode, urlsN, hw, logOpen, latePc, queuedAtStop, j, tasks_, queue_mutex_, poolErrs>>
    /\ UNCHANGED <<sharedVars, handleVars, taskVars>>

\* main.cpp:179  enqueue takes queue_mutex_
EnqueueLock ==
    /\ mainPc = "enq_lock"
    /\ queue_mutex_ = 0
    /\ queue_mutex_' = MainThread
    /\ mainPc' = "enq_push"
    /\ UNCHANGED <<exitCode, urlsN, hw, logOpen, latePc, queuedAtStop, NUM_THREADS, i, j, stop_, tasks_, poolErrs>>
    /\ UNCHANGED <<workerVars, sharedVars, handleVars, taskVars>>

\* main.cpp:310, 316  the for loop's ++i and test
AfterEnqueue == IF i + 1 < urlsN THEN "enq_lock" ELSE "dtor_lock"

\* a queue that adds at the front (what emplace must not do)
EmplaceFront(q, f) == <<f>> \o q

\* every task writing to one and the same destination
FilenameShared(t) == <<"page", 1, ".html">>

\* main.cpp:313  filename_str = "page" + std::to_string(i + 1) + ".html",
\* t = i + 1 being the task's number
Filename(t) == <<"page", t, ".html">>

\* main.cpp:184  tasks_.emplace(f): std::queue adds at the back
Emplace(q, f) == Append(q, f)

\* an enqueue that does not look at stop_
EnqueueBodyNoCheck(f) == poolErrs' = poolErrs /\ tasks_' = Emplace(tasks_, f)

\* main.cpp:180-184  under the lock: reject with an error entry when stop_
\* is set, else emplace f
EnqueueBody(f) ==
    IF stop_
    THEN poolErrs' = poolErrs + 1 /\ tasks_' = tasks_
    ELSE poolErrs' = poolErrs /\ tasks_' = Emplace(tasks_, f)

\* main.cpp:180-185, 313  enqueue's critical section for the closure of
\* urls[i] (task i + 1); a rejected call returns before notify_one
EnqueuePush ==
    /\ mainPc = "enq_push"
    /\ queue_mutex_ = MainThread
    /\ EnqueueBody(i + 1)
    /\ IF stop_
       THEN i' = i + 1 /\ mainPc' = AfterEnqueue
       ELSE i' = i /\ mainPc' = "enq_notify"
    /\ queue_mutex_' = 0
    /\ UNCHANGED <<exitCode, urlsN, hw, logOpen, latePc, queuedAtStop, NUM_THREADS, j, stop_>>
    /\ UNCHANGED <<workerVars, sharedVars, handleVars, taskVars>>

\* main.cpp:186  condition_.notify_one()
EnqueueNotify ==
    /\ mainPc = "enq_notify"
    /\ wpc' \in NotifyOne
    /\ i' = i + 1
    /\ mainPc' = AfterEnqueue
    /\ UNCHANGED <<exitCode, urlsN, hw, logOpen, latePc, queuedAtStop, NUM_THREADS, j>>
    /\ UNCHANGED <<poolVars, wtask, retries, res, current_completed>>
    /\ UNCHANGED <<sharedVars, handleVars, taskVars>>

\* ---- ~ThreadPool ----------------------------------------------------------
\* main.cpp:192
DtorLock ==
    /\ mainPc = "dtor_lock"
    /\ queue_mutex_ = 0
    /\ queue_mutex_' = MainThread
    /\ mainPc' = "dtor_stop"
    /\ UNCHANGED <<exitCode, urlsN, hw, logOpen, latePc, queuedAtStop, NUM_THREADS, i, j, stop_, tasks_, poolErrs>>
    /\ UNCHANGED <<workerVars, sharedVars, handleVars, taskVars>>

\* main.cpp:193-194
DtorSetStop ==
    /\ mainPc = "dtor_stop"
    /\ queue_mutex_ = MainThread
    /\ stop_' = TRUE
    /\ queuedAtStop' = tasks_
    /\ queue_mutex_' = 0
    /\ mainPc' = "dtor_notify"
    /\ UNCHANGED <<exitCode, urlsN, hw, logOpen, latePc, NUM_THREADS, i, j, tasks_, poolErrs>>
    /\ UNCHANGED <<workerVars, sharedVars, handleVars, taskVars>>

\* main.cpp:195  condition_.notify_all()
DtorNotifyAll ==
    /\ mainPc = "dtor_notify"
    /\ wpc' \in NotifyAll
    /\ mainPc' = "join"
    /\ UNCHANGED <<exitCode, urlsN, hw, logOpen, latePc, queuedAtStop, NUM_THREADS, i, j>>
    /\ UNCHANGED <<poolVars, wtask, retries, res, current_completed>>
    /\ UNCHANGED <<sharedVars, handleVars, taskVars>>

\* a destructor that does not wait for the worker (detach instead of join)
JoinDetached(w) == TRUE

\* main.cpp:196-200  worker.join() returns once that worker's thread has ended
JoinReturns(w) == wpc[w] = "exited"

DtorJoin ==
    /\ mainPc = "join"
    /\ j < NUM_THREADS
    /\ JoinReturns(j + 1)
    /\ j' = j + 1
    /\ UNCHANGED <<mainPc, exitCode, urlsN, hw, logOpen, latePc, queuedAtStop, NUM_THREADS, i>>
    /\ UNCHANGED <<poolVars, workerVars, sharedVars, handleVars, taskVars>>

\* main.cpp:196, 201, 318  every worker joined: the destructor and downloadAll return
DtorReturn ==
    /\ mainPc = "join"
    /\ j = NUM_THREADS
    /\ mainPc' = "dispatched"
    /\ UNCHANGED <<exitCode, urlsN, hw, logOpen, latePc, queuedAtStop, NUM_THREADS, i, j>>
    /\ UNCHANGED <<poolVars, workerVars, sharedVars, handleVars, taskVars>>

\* main.cpp:336  "All download tasks dispatched. Waiting for completion..."
MainDispatched ==
    /\ mainPc = "dispatched"
    /\ mainPc' = "finish"
    /\ UNCHANGED <<exitCode, urlsN, hw, logOpen, latePc, queuedAtStop, NUM_THREADS, i, j>>
    /\ UNCHANGED <<poolVars, workerVars, sharedVars, handleVars, taskVars>>

\* main.cpp:342-344  "Program finished."; return 0
MainFinish ==
    /\ mainPc = "finish"
    /\ mainPc' = "exited"
    /\ exitCode' = 0
    /\ UNCHANGED <<urlsN, hw, logOpen, latePc, queuedAtStop, NUM_THREADS, i, j>>
    /\ UNCHANGED <<poolVars, workerVars, sharedVars, handleVars, taskVars>>


\* ---- the worker loop (main.cpp:154-171) -----------------------------------
\* worker w exists and its thread is at position pc
At(w, pc) == w \in Workers /\ wpc[w] = pc

\* main.cpp:158, 160  lock queue_mutex_ (on entry, or again when woken in wait)
WorkerLock(w) ==
    /\ At(w, "lock")
    /\ queue_mutex_ = 0
    /\ queue_mutex_' = w
    /\ wpc' = [wpc EXCEPT ![w] = "pred"]
    /\ UNCHANGED <<stop_, tasks_, poolErrs, wtask, retries, res, current_completed>>
    /\ UNCHANGED <<mainVars, sharedVars, handleVars, taskVars>>

\* main.cpp:160  predicate false: wait() unlocks and blocks in one atomic step
WorkerWait(w) ==
    /\ At(w, "pred")
    /\ queue_mutex_ = w
    /\ ~WaitPredicate
    /\ queue_mutex_' = 0
    /\ wpc' = [wpc EXCEPT ![w] = "blocked"]
    /\ UNCHANGED <<stop_, tasks_, poolErrs, wtask, retries, res, current_completed>>
    /\ UNCHANGED <<mainVars, sharedVars, handleVars, taskVars>>

\* a blocked wait() may wake without any notify; it re-checks the predicate
SpuriousWake(w) ==
    /\ At(w, "blocked")
    /\ wpc' = [wpc EXCEPT ![w] = "lock"]
    /\ UNCHANGED <<poolVars, wtask, retries, res, current_completed>>
    /\ UNCHANGED <<mainVars, sharedVars, handleVars, taskVars>>

\* an exit test that looks at stop_ only (a pool that cancels queued work)
ExitOnStop == stop_

\* main.cpp:163  if (stop_ && tasks_.empty())
ExitCondition == stop_ /\ tasks_ = << >>

\* main.cpp:163-165  return: the worker's thread ends
WorkerExit(w) ==
    /\ At(w, "pred")
    /\ queue_mutex_ = w
    /\ WaitPredicate
    /\ ExitCondition
    /\ queue_mutex_' = 0
    /\ wpc' = [wpc EXCEPT ![w] = "exited"]
    /\ UNCHANGED <<stop_, tasks_, poolErrs, wtask, retries, res, current_completed>>
    /\ UNCHANGED <<mainVars, sharedVars, handleVars, taskVars>>

\* main.cpp:166  tasks_.front()
Front(q) == Head(q)

\* main.cpp:167  tasks_.pop()
Pop(q) == Tail(q)

\* main.cpp:166-169, 226-228  take the front task, unlock, call downloadPage
WorkerDequeue(w) ==
    /\ At(w, "pred")
    /\ queue_mutex_ = w
    /\ WaitPredicate
    /\ ~ExitCondition
    /\ tasks_ # << >>
    /\ wtask' = [wtask EXCEPT ![w] = Front(tasks_)]
    /\ deq' = [deq EXCEPT ![Front(tasks_)] = @ + 1]
    /\ deqLog' = Append(deqLog, Front(tasks_))
    /\ tasks_' = Pop(tasks_)
    /\ queue_mutex_' = 0
    /\ retries' = [retries EXCEPT ![w] = 0]
    /\ res' = [res EXCEPT ![w] = "none"]
    /\ wpc' = [wpc EXCEPT ![w] = "init"]
    /\ UNCHANGED <<stop_, poolErrs, current_completed>>
    /\ UNCHANGED <<iters, fetches, fails, sleeps, retryLogs, errLogs, ended, abortIter>>
    /\ UNCHANGED <<mainVars, sharedVars, handleVars>>

\* ---- downloadPage (main.cpp:225-274) --------------------------------------
\* downloadPage returns: the worker goes round its loop (main.cpp:155)
Return(w, how) ==
    /\ ended' = [ended EXCEPT ![wtask[w]] = how]
    /\ wpc' = [wpc EXCEPT ![w] = "lock"]
    /\ wtask' = [wtask EXCEPT ![w] = 0]
    /\ retries' = [retries EXCEPT ![w] = 0]
    /\ res' = [res EXCEPT ![w] = "none"]
    /\ current_completed' = [current_completed EXCEPT ![w] = 0]

\* main.cpp:42-46, 79-83  the iteration's curl_handle and file_handle go out of
\* scope: ~FileHandle fcloses, ~CurlHandle cleans up
ScopeExit(t) ==
    /\ fileRel' = [fileRel EXCEPT ![t] = @ + 1]
    /\ curlRel' = [curlRel EXCEPT ![t] = @ + 1]
    /\ UNCHANGED <<curlAcq, fileAcq>>

\* main.cpp:232  curl_easy_init() returns a handle
CurlInitOk(w) ==
    /\ At(w, "init")
    /\ iters' = [iters EXCEPT ![wtask[w]] = @ + 1]
    /\ curlAcq' = [curlAcq EXCEPT ![wtask[w]] = @ + 1]
    /\ wpc' = [wpc EXCEPT ![w] = "fopen"]
    /\ UNCHANGED <<wtask, retries, res, current_completed>>
    /\ UNCHANGED <<curlRel, fileAcq, fileRel>>
    /\ UNCHANGED <<deq, deqLog, fetches, fails, sleeps, retryLogs, errLogs, ended, abortIter>>
    /\ UNCHANGED <<mainVars, poolVars, sharedVars>>

\* curl_easy_init failure handled as a failed attempt: logged, counted in
\* retries and retried after a backoff instead of returning
CurlInitFailRetried(w) ==
    /\ At(w, "init")
    /\ iters' = [iters EXCEPT ![wtask[w]] = @ + 1]
    /\ errLogs' = [errLogs EXCEPT ![wtask[w]] = @ + 1]
    /\ abortIter' = [abortIter EXCEPT ![wtask[w]] = iters[wtask[w]] + 1]
    /\ retries' = [retries EXCEPT ![w] = @ + 1]
    /\ res' = [res EXCEPT ![w] = "FAIL"]
    /\ wpc' = [wpc EXCEPT ![w] = IF LoopAgain(retries[w] + 1) THEN "init" ELSE "after"]
    /\ UNCHANGED <<wtask, current_completed>>
    /\ UNCHANGED <<deq, deqLog, fetches, fails, sleeps, retryLogs, ended>>
    /\ UNCHANGED <<mainVars, poolVars, sharedVars, handleVars>>

\* main.cpp:232-236  curl_easy_init() returns null: logError, return
\* (~CurlHandle finds handle_ null and releases nothing)
CurlInitFail(w) ==
    /\ At(w, "init")
    /\ iters' = [iters EXCEPT ![wtask[w]] = @ + 1]
    /\ errLogs' = [errLogs EXCEPT ![wtask[w]] = @ + 1]
    /\ abortIter' = [abortIter EXCEPT ![wtask[w]] = iters[wtask[w]] + 1]
    /\ Return(w, "Aborted")
    /\ UNCHANGED <<deq, deqLog, fetches, fails, sleeps, retryLogs>>
    /\ UNCHANGED <<mainVars, poolVars, sharedVars, handleVars>>

\* main.cpp:238  fopen() returns a FILE*
FileOpenOk(w) ==
    /\ At(w, "fopen")
    /\ fileAcq' = [fileAcq EXCEPT ![wtask[w]] = @ + 1]
    /\ wpc' = [wpc EXCEPT ![w] = "perform"]
    /\ UNCHANGED <<wtask, retries, res, current_completed>>
    /\ UNCHANGED <<curlAcq, curlRel, fileRel>>
    /\ UNCHANGED <<mainVars, poolVars, sharedVars, taskVars>>

\* fopen failure handled without the RAII wrapper: the transfer handle is
\* never cleaned up
FileOpenFailLeak(w) ==
    /\ At(w, "fopen")
    /\ errLogs' = [errLogs EXCEPT ![wtask[w]] = @ + 1]
    /\ abortIter' = [abortIter EXCEPT ![wtask[w]] = iters[wtask[w]]]
    /\ Return(w, "Aborted")
    /\ UNCHANGED <<deq, deqLog, iters, fetches, fails, sleeps, retryLogs>>
    /\ UNCHANGED <<mainVars, poolVars, sharedVars, handleVars>>

\* main.cpp:238-242  fopen() returns null: logError, return; ~FileHandle finds
\* file_ null, ~CurlHandle cleans up the transfer handle
FileOpenFail(w) ==
    /\ At(w, "fopen")
    /\ errLogs' = [errLogs EXCEPT ![wtask[w]] = @ + 1]
    /\ abortIter' = [abortIter EXCEPT ![wtask[w]] = iters[wtask[w]]]
    /\ curlRel' = [curlRel EXCEPT ![wtask[w]] = @ + 1]
    /\ Return(w, "Aborted")
    /\ UNCHANGED <<curlAcq, fileAcq, fileRel>>
    /\ UNCHANGED <<deq, deqLog, iters, fetches, fails, sleeps, retryLogs>>
    /\ UNCHANGED <<mainVars, poolVars, sharedVars>>

\* main.cpp:244-256  curl_easy_perform returns CURLE_OK: break out of the loop
PerformOk(w) ==
    /\ At(w, "perform")
    /\ fetches' = [fetches EXCEPT ![wtask[w]] = @ + 1]
    /\ res' = [res EXCEPT ![w] = "OK"]
    /\ ScopeExit(wtask[w])
    /\ wpc' = [wpc EXCEPT ![w] = "after"]
    /\ UNCHANGED <<wtask, retries, current_completed>>
    /\ UNCHANGED <<deq, deqLog, iters, fails, sleeps, retryLogs, errLogs, ended, abortIter>>
    /\ UNCHANGED <<mainVars, poolVars, sharedVars>>

\* main.cpp:244-260  curl_easy_perform fails, retries++ and the retry is logged
PerformFailRetry(w) ==
    /\ At(w, "perform")
    /\ RetryLogged(retries[w] + 1)
    /\ fetches' = [fetches EXCEPT ![wtask[w]] = @ + 1]
    /\ fails' = [fails EXCEPT ![wtask[w]] = @ + 1]
    /\ res' = [res EXCEPT ![w] = "FAIL"]
    /\ retries' = [retries EXCEPT ![w] = @ + 1]
    /\ retryLogs' = [retryLogs EXCEPT ![wtask[w]] = @ + 1]
    /\ wpc' = [wpc EXCEPT ![w] = "sleep"]
    /\ UNCHANGED <<wtask, current_completed>>
    /\ UNCHANGED <<deq, deqLog, iters, sleeps, errLogs, ended, abortIter>>
    /\ UNCHANGED <<mainVars, poolVars, sharedVars, handleVars>>

\* main.cpp:244-263  curl_easy_perform fails, retries++ reaches the ceiling:
\* no log, no sleep; the iteration's scope ends and the loop test is made
PerformFailLast(w) ==
    /\ At(w, "perform")
    /\ ~RetryLogged(retries[w] + 1)
    /\ fetches' = [fetches EXCEPT ![wtask[w]] = @ + 1]
    /\ fails' = [fails EXCEPT ![wtask[w]] = @ + 1]
    /\ res' = [res EXCEPT ![w] = "FAIL"]
    /\ retries' = [retries EXCEPT ![w] = @ + 1]
    /\ ScopeExit(wtask[w])
    /\ wpc' = [wpc EXCEPT ![w] = IF LoopAgain(retries[w] + 1) THEN "init" ELSE "after"]
    /\ UNCHANGED <<wtask, current_completed>>
    /\ UNCHANGED <<deq, deqLog, iters, sleeps, retryLogs, errLogs, ended, abortIter>>
    /\ UNCHANGED <<mainVars, poolVars, sharedVars>>

\* handles that outlive the iteration: nothing is released at the end of it
BackoffSleepLeak(w) ==
    /\ At(w, "sleep")
    /\ sleeps' = [sleeps EXCEPT ![wtask[w]] = Append(@, Backoff(retries[w]))]
    /\ wpc' = [wpc EXCEPT ![w] = IF LoopAgain(retries[w]) THEN "init" ELSE "after"]
    /\ UNCHANGED <<wtask, retries, res, current_completed>>
    /\ UNCHANGED <<deq, deqLog, iters, fetches, fails, retryLogs, errLogs, ended, abortIter>>
    /\ UNCHANGED <<mainVars, poolVars, sharedVars, handleVars>>

\* main.cpp:261-263  sleep_for(100 * retries), then the iteration's scope ends
\* (handles released) and the loop test is made
BackoffSleep(w) ==
    /\ At(w, "sleep")
    /\ sleeps' = [sleeps EXCEPT ![wtask[w]] = Append(@, Backoff(retries[w]))]
    /\ ScopeExit(wtask[w])
    /\ wpc' = [wpc EXCEPT ![w] = IF LoopAgain(retries[w]) THEN "init" ELSE "after"]
    /\ UNCHANGED <<wtask, retries, res, current_completed>>
    /\ UNCHANGED <<deq, deqLog, iters, fetches, fails, retryLogs, errLogs, ended, abortIter>>
    /\ UNCHANGED <<mainVars, poolVars, sharedVars>>

\* a failure path that also bumps the progress counter
ReportFailureCounted(w) ==
    /\ At(w, "after")
    /\ res[w] # "OK"
    /\ errLogs' = [errLogs EXCEPT ![wtask[w]] = @ + 1]
    /\ g_completed_downloads' = g_completed_downloads + 1
    /\ Return(w, "Exhausted")
    /\ UNCHANGED <<dlLog>>
    /\ UNCHANGED <<deq, deqLog, iters, fetches, fails, sleeps, retryLogs, abortIter>>
    /\ UNCHANGED <<mainVars, poolVars, handleVars>>

\* a failure that takes the worker thread down with the task
ReportFailureStopsWorker(w) ==
    /\ At(w, "after")
    /\ res[w] # "OK"
    /\ errLogs' = [errLogs EXCEPT ![wtask[w]] = @ + 1]
    /\ ended' = [ended EXCEPT ![wtask[w]] = "Exhausted"]
    /\ wpc' = [wpc EXCEPT ![w] = "exited"]
    /\ wtask' = [wtask EXCEPT ![w] = 0]
    /\ retries' = [retries EXCEPT ![w] = 0]
    /\ res' = [res EXCEPT ![w] = "none"]
    /\ current_completed' = [current_completed EXCEPT ![w] = 0]
    /\ UNCHANGED <<deq, deqLog, iters, fetches, fails, sleeps, retryLogs, abortIter>>
    /\ UNCHANGED <<mainVars, poolVars, sharedVars, handleVars>>

\* main.cpp:265-266  res != CURLE_OK: logError "Download failed", return
ReportFailure(w) ==
    /\ At(w, "after")
    /\ res[w] # "OK"
    /\ errLogs' = [errLogs EXCEPT ![wtask[w]] = @ + 1]
    /\ Return(w, "Exhausted")
    /\ UNCHANGED <<deq, deqLog, iters, fetches, fails, sleeps, retryLogs, abortIter>>
    /\ UNCHANGED <<mainVars, poolVars, sharedVars, handleVars>>

\* a post-increment: the task keeps the value the counter had before
RecordSuccessPostIncrement(w) ==
    /\ At(w, "after")
    /\ res[w] = "OK"
    /\ g_completed_downloads' = g_completed_downloads + 1
    /\ current_completed' = [current_completed EXCEPT ![w] = g_completed_downloads]
    /\ wpc' = [wpc EXCEPT ![w] = "logdl"]
    /\ UNCHANGED <<wtask, retries, res, dlLog>>
    /\ UNCHANGED <<mainVars, poolVars, handleVars, taskVars>>

\* main.cpp:268  int current_completed = ++g_completed_downloads
RecordSuccess(w) ==
    /\ At(w, "after")
    /\ res[w] = "OK"
    /\ g_completed_downloads' = g_completed_downloads + 1
    /\ current_completed' = [current_completed EXCEPT ![w] = g_completed_downloads + 1]
    /\ wpc' = [wpc EXCEPT ![w] = "logdl"]
    /\ UNCHANGED <<wtask, retries, res, dlLog>>
    /\ UNCHANGED <<mainVars, poolVars, handleVars, taskVars>>

\* main.cpp:269  (double(k) / total_urls) * 100 as std::to_string prints it:
\* six decimals, here as an integer number of millionths of a percent, rounded
Percentage(k, n) == (2 * k * PercentUnit + n) \div (2 * n)

\* main.cpp:270-271  the message "Downloaded k/N (p%)"
DownloadedMsg(k, n) == [k |-> k, n |-> n, pct |-> Percentage(k, n)]

\* a success path that reads g_completed_downloads again when it logs
LogDownloadedRereads(w) ==
    /\ At(w, "logdl")
    /\ dlLog' = Append(dlLog, DownloadedMsg(g_completed_downloads, urlsN))
    /\ Return(w, "Success")
    /\ UNCHANGED <<g_completed_downloads>>
    /\ UNCHANGED <<deq, deqLog, iters, fetches, fails, sleeps, retryLogs, errLogs, abortIter>>
    /\ UNCHANGED <<mainVars, poolVars, handleVars>>

\* main.cpp:269-273, 313  log "Downloaded k/N (p%)" with k = current_completed
\* and N = total_urls_count = urls.size(), return
LogDownloaded(w) ==
    /\ At(w, "logdl")
    /\ dlLog' = Append(dlLog, DownloadedMsg(current_completed[w], urlsN))
    /\ Return(w, "Success")
    /\ UNCHANGED <<g_completed_downloads>>
    /\ UNCHANGED <<deq, deqLog, iters, fetches, fails, sleeps, retryLogs, errLogs, abortIter>>
    /\ UNCHANGED <<mainVars, poolVars, handleVars>>

\* ---- specification --------------------------------------------------------
MainStep ==
    \/ MainOpenLog
    \/ MainLoad
    \/ MainStartPool
    \/ EnqueueLock
    \/ EnqueuePush
    \/ EnqueueNotify
    \/ DtorLock
    \/ DtorSetStop
    \/ DtorNotifyAll
    \/ DtorJoin
    \/ DtorReturn
    \/ MainDispatched
    \/ MainFinish

WorkerStep(w) ==
    \/ WorkerLock(w)
    \/ WorkerWait(w)
    \/ WorkerExit(w)
    \/ WorkerDequeue(w)
    \/ CurlInitOk(w)
    \/ CurlInitFail(w)
    \/ FileOpenOk(w)
    \/ FileOpenFail(w)
    \/ PerformOk(w)
    \/ PerformFailRetry(w)
    \/ PerformFailLast(w)
    \/ BackoffSleep(w)
    \/ ReportFailure(w)
    \/ RecordSuccess(w)
    \/ LogDownloaded(w)

Next ==
    \/ MainStep
    \/ \E w \in WorkerIds : WorkerStep(w)
    \/ \E w \in WorkerIds : SpuriousWake(w)

Spec == Init /\ [][Next]_vars

\* ---- the pool with one more caller of enqueue --------------------------------
\* ThreadPool is a class of its own: enqueue is public and guards itself
\* against callers that arrive after ~ThreadPool has set stop_ (a thread that
\* still holds a reference to the pool while the destructor is joining).
\* downloadAll never makes such a call; PoolSpec adds one caller that does.

\* the closure the late caller submits: none of downloadAll's tasks
LateTask == urlsN + 1

\* main.cpp:176-187  one call of enqueue made once stop_ is set and before
\* ~ThreadPool returns: lock (179), stop_ check, error entry and return
\* (180-183) or emplace (184), unlock
LateEnqueue ==
    /\ latePc = "idle"
    /\ stop_
    /\ mainPc \in {"dtor_notify", "join"}
    /\ queue_mutex_ = 0
    /\ EnqueueBody(LateTask)
    /\ latePc' = "returned"
    /\ UNCHANGED <<mainPc, exitCode, urlsN, hw, logOpen, queuedAtStop, NUM_THREADS, i, j>>
    /\ UNCHANGED <<stop_, queue_mutex_>>
    /\ UNCHANGED <<workerVars, sharedVars, handleVars, taskVars>>

PoolNext ==
    \/ Next
    \/ LateEnqueue

PoolSpec == Init /\ [][PoolNext]_vars

\* Every thread that can take a step eventually takes one: the main thread
\* and each worker thread are scheduled fairly. A spurious wake-up may happen
\* but is never owed.
FairSpec ==
    /\ Spec
    /\ WF_vars(MainStep)
    /\ \A w \in WorkerIds : WF_vars(WorkerStep(w))


\* ---- shared vocabulary of the properties ----------------------------------
\* ~ThreadPool has returned (downloadAll is over)
PoolJoined == mainPc \in {"dispatched", "finish"} \/ (mainPc = "exited" /\ exitCode = 0)

\* handles task t's current iteration holds
CurlHeld(t) == curlAcq[t] - curlRel[t]
FileHeld(t) == fileAcq[t] - fileRel[t]

Running(t) == \E w \in Workers : wtask[w] = t

\* downloadPage for t has returned after fetches that all failed, every
\* acquisition having succeeded
AlwaysFailed(t) ==
    /\ ended[t] # "no"
    /\ abortIter[t] = 0
    /\ fetches[t] > 0
    /\ fails[t] = fetches[t]

\* ---- C1 -------------------------------------------------------------------
\* C1: every accepted task is dequeued by exactly one worker exactly once:
\* no task is ever dequeued twice, and once the pool is joined every task
\* has been dequeued (the dequeue count equals N and the queue is empty).
C1_ExactlyOnceDequeue ==
    /\ \A t \in Tasks : deq[t] <= 1
    /\ PoolJoined => /\ \A t \in Tasks : deq[t] = 1
                     /\ tasks_ = << >>

\* ---- C2 -------------------------------------------------------------------
SuccessCount == Cardinality({t \in Tasks : ended[t] = "Success"})
\* workers between the increment and the return of a successful task
Reporting == Cardinality({w \in Workers : wpc[w] = "logdl"})

\* C2: the progress counter stays within 0..N, never decreases, counts
\* exactly the tasks that took the success branch (none that failed or
\* aborted), and after the join equals the number of tasks ended in Success.
C2_ProgressCounter ==
    /\ [](/\ 0 <= g_completed_downloads
          /\ g_completed_downloads <= urlsN
          /\ g_completed_downloads = SuccessCount + Reporting
          /\ PoolJoined => g_completed_downloads = SuccessCount)
    /\ [][g_completed_downloads' >= g_completed_downloads]_vars

C2_Witness ==
    /\ PoolJoined
    /\ g_completed_downloads = 1
    /\ \E t \in Tasks : ended[t] = "Exhausted"

C4_JoinBarrier ==
    PoolJoined => \A w \in Workers : wpc[w] = "exited" /\ wtask[w] = 0

C4_Witness ==
    /\ mainPc = "exited"
    /\ exitCode = 0
    /\ NUM_THREADS >= 2
    /\ \E t \in Tasks : deq[t] = 1

\* ---- C5 -------------------------------------------------------------------
StrictlyIncreasing(q) == \A k \in 1..(Len(q) - 1) : q[k] < q[k + 1]

\* C5: a task whose fetch fails on every attempt (acquisition succeeding)
\* makes exactly 3 fetch attempts and ends Exhausted, having slept 100 ms then
\* 200 ms; no task ever makes more than 3 attempts, the delays a task sleeps
\* are strictly increasing, and none is slept after the last failed attempt.
C5_ThreeAttemptsThenExhausted ==
    \A t \in Tasks :
        /\ fetches[t] <= 3
        /\ StrictlyIncreasing(sleeps[t])
        /\ Len(sleeps[t]) <= 2
        /\ AlwaysFailed(t) => /\ fetches[t] = 3
                              /\ ended[t] = "Exhausted"
                              /\ sleeps[t] = <<100, 200>>

C5_Witness ==
    \E t \in Tasks : AlwaysFailed(t) /\ fetches[t] = 3 /\ Len(sleeps[t]) = 2

\* ---- C6 -------------------------------------------------------------------
AbortedCount == Cardinality({t \in Tasks : abortIter[t] # 0})

\* C6 as stated: a task that fails resource acquisition performs exactly one
\* attempt: one error entry, the task ended, no retry entry, no backoff sleep,
\* no further iteration and no increment of the progress counter.
C6_OneAttemptOnly ==
    \A t \in Tasks :
        abortIter[t] # 0 =>
            /\ ended[t] = "Aborted"
            /\ iters[t] = 1
            /\ errLogs[t] = 1
            /\ retryLogs[t] = 0
            /\ sleeps[t] = << >>
            /\ g_completed_downloads + AbortedCount <= urlsN

\* C6 amended: an acquisition failure in iteration k ends the task at once
\* with one error entry; nothing follows it (no iteration, fetch, retry entry,
\* sleep or counter increment), so the task has made exactly k iterations and
\* the k-1 fetches, retry entries and sleeps of the iterations before it; for
\* a failure in the first iteration that is one attempt and nothing else.
C6_AbortEndsTask ==
    \A t \in Tasks :
        abortIter[t] # 0 =>
            /\ ended[t] = "Aborted"
            /\ ~Running(t)
            /\ iters[t] = abortIter[t]
            /\ errLogs[t] = 1
            /\ fetches[t] = abortIter[t] - 1
            /\ fails[t] = abortIter[t] - 1
            /\ retryLogs[t] = abortIter[t] - 1
            /\ Len(sleeps[t]) = abortIter[t] - 1
            /\ abortIter[t] = 1 => /\ iters[t] = 1
                                   /\ retryLogs[t] = 0
                                   /\ sleeps[t] = << >>
            /\ g_completed_downloads + AbortedCount <= urlsN

C6_Witness ==
    /\ \E t \in Tasks : abortIter[t] = 1 /\ ended[t] = "Aborted" /\ curlAcq[t] = 1
    /\ \E t \in Tasks : abortIter[t] = 2 /\ ended[t] = "Aborted"

\* ---- C7 -------------------------------------------------------------------
\* C7: every handle acquired is released exactly once: releases never exceed
\* acquisitions, a task holds at most one transfer handle and one file handle
\* at a time, holds them only while a worker runs it, and has released all
\* it acquired when it ends, whatever the outcome.
C7_HandlesReleasedOnce ==
    \A t \in Tasks :
        /\ CurlHeld(t) \in {0, 1}
        /\ FileHeld(t) \in {0, 1}
        /\ FileHeld(t) <= CurlHeld(t)
        /\ ~Running(t) => CurlHeld(t) = 0 /\ FileHeld(t) = 0
        /\ ended[t] # "no" => /\ curlRel[t] = curlAcq[t]
                              /\ fileRel[t] = fileAcq[t]

\* a task aborted by a file-open failure in its second iteration, after two
\* transfer handles and one file handle were acquired
C7_Witness ==
    \E t \in Tasks :
        /\ ended[t] = "Aborted"
        /\ curlAcq[t] = 2 /\ curlRel[t] = 2
        /\ fileAcq[t] = 1 /\ fileRel[t] = 1

\* ---- C8 -------------------------------------------------------------------
\* C8 as stated: a worker in RetryWait (the retry entry written, sleeping
\* for the backoff delay) holds no handle.
C8_NoHandleInRetryWait ==
    \A w \in Workers :
        wpc[w] = "sleep" => CurlHeld(wtask[w]) = 0 /\ FileHeld(wtask[w]) = 0

\* C8 amended: the failed attempt's handles are released at the end of the
\* loop iteration, after the retry entry and the backoff sleep: the worker
\* still holds both while it sleeps, and holds none when the next iteration
\* starts acquiring.
C8_ReleasedBeforeNextAttempt ==
    \A w \in Workers :
        /\ wpc[w] = "sleep" => CurlHeld(wtask[w]) = 1 /\ FileHeld(wtask[w]) = 1
        /\ wpc[w] = "init" => CurlHeld(wtask[w]) = 0 /\ FileHeld(wtask[w]) = 0

C8_Witness ==
    \E w \in Workers :
        /\ wpc[w] = "init"
        /\ retries[w] = 2
        /\ Len(sleeps[wtask[w]]) = 2
        /\ curlRel[wtask[w]] = 2

\* ---- C9 -------------------------------------------------------------------
ExhaustedCount == Cardinality({t \in Tasks : ended[t] = "Exhausted"})

\* C9 as stated: a URL whose fetch fails on every attempt gets 3 retry
\* entries and 1 final error entry, does not move the progress counter, and
\* main still returns 0.
C9_ThreeRetryEntries ==
    /\ \A t \in Tasks :
           AlwaysFailed(t) => /\ retryLogs[t] = 3
                              /\ errLogs[t] = 1
                              /\ g_completed_downloads + ExhaustedCount <= urlsN
    /\ (mainPc = "exited" /\ urlsN > 0) => exitCode = 0

\* C9 amended: such a URL gets 2 retry entries (after the first and the
\* second of its 3 failed attempts) and 1 final error entry, does not move
\* the progress counter, and main still returns 0.
C9_TwoRetryEntries ==
    /\ \A t \in Tasks :
           AlwaysFailed(t) => /\ retryLogs[t] = 2
                              /\ errLogs[t] = 1
                              /\ g_completed_downloads + ExhaustedCount <= urlsN
    /\ (mainPc = "exited" /\ urlsN > 0) => exitCode = 0

C9_Witness ==
    /\ mainPc = "exited"
    /\ exitCode = 0
    /\ \E t \in Tasks : AlwaysFailed(t) /\ fetches[t] = 3


\* ---- C10 ------------------------------------------------------------------
\* the destructor has set stop_ and called notify_all
CloseNotified == stop_ /\ mainPc \in {"join", "dispatched", "finish", "exited"}

AllWorkersExited == \A w \in Workers : wpc[w] = "exited"

\* C10: once the destructor has set stop_ and called notify_all, no worker is
\* blocked in the queue wait, and every worker, wherever it was at that
\* moment, eventually leaves its loop.
C10_NoWorkerBlocksForever ==
    /\ [](CloseNotified => \A w \in Workers : wpc[w] # "blocked")
    /\ (CloseNotified ~> AllWorkersExited)

\* the close is notified while one worker has just been woken and has to take
\* the mutex again and another is in the middle of a task
C10_Witness ==
    /\ mainPc = "join"
    /\ \E w \in Workers : wpc[w] = "lock" /\ wtask[w] = 0
    /\ \E w \in Workers : wpc[w] = "sleep"

\* ---- C11 ------------------------------------------------------------------
\* downloadAll enqueues task 1, 2, ... in this order (main.cpp:310-316), so
\* the enqueue order of the accepted tasks is the order of their numbers.
Accepted == deqLog \o tasks_

\* C11: tasks are dequeued in the order they were enqueued: in every state
\* the tasks already dequeued, followed by the tasks still queued, are
\* 1, 2, ... in enqueue order, so a task enqueued earlier is dequeued first.
\* The order of completion is not constrained (see the witness).
C11_FifoDequeue ==
    \A k \in 1..Len(Accepted) : Accepted[k] = k

\* both tasks were dequeued in order, and the later one has completed
\* while the earlier one is still running
C11_Witness ==
    /\ deqLog = <<1, 2>>
    /\ ended[2] # "no"
    /\ ended[1] = "no"

\* ---- C12 ------------------------------------------------------------------
\* downloadAll has constructed the pool (main.cpp:305)
PoolStarted == mainPc \notin {"open", "load", "pool"} /\ urlsN >= 1

\* C12: the pool is never started with fewer than 4 workers, whatever
\* hardware_concurrency() reports and whatever the batch size N >= 1 is.
C12_AtLeastFour ==
    PoolStarted => NUM_THREADS >= MinThreads

\* ---- C13 ------------------------------------------------------------------
\* openLogFile has returned without opening the file
LogSinkUnopened == mainPc # "open" /\ ~logOpen

\* C13 (as claimed): when the log sink cannot be opened no pool is started,
\* no download is attempted and the process exits with a nonzero code.
C13_LogFailureIsFatal ==
    LogSinkUnopened =>
        /\ ~PoolStarted
        /\ \A t \in Tasks : iters[t] = 0
        /\ mainPc = "exited" => exitCode # 0

\* C13 (amended): a log sink that cannot be opened does not stop the run.
\* Whatever openLogFile's outcome, main goes on to loadURLs, and the exit
\* code is decided by the URL list alone: 1 when it is empty, 0 otherwise.
C13_LogFailureNotFatal ==
    /\ [](mainPc = "exited" => exitCode = IF urlsN = 0 THEN 1 ELSE 0)
    /\ [][mainPc = "open" => mainPc' = "load" /\ exitCode' = exitCode]_vars

\* a run without a log file downloaded a page and exited with code 0
C13_Witness ==
    /\ LogSinkUnopened
    /\ mainPc = "exited"
    /\ exitCode = 0
    /\ \E t \in Tasks : ended[t] = "Success"

\* ---- C14 ------------------------------------------------------------------
\* C14: when loadURLs accepts no URL, main never reaches downloadAll: no
\* ThreadPool is constructed (no worker thread exists), nothing is enqueued,
\* no download runs, the progress counter stays 0, and the process exits
\* with a nonzero code.
C14_EmptyListExitsEarly ==
    urlsN = 0 =>
        /\ mainPc \in {"open", "load", "exited"}
        /\ mainPc = "exited" => exitCode # 0
        /\ NUM_THREADS = 0
        /\ wpc = << >>
        /\ i = 0
        /\ tasks_ = << >>
        /\ deqLog = << >>
        /\ g_completed_downloads = 0
        /\ dlLog = << >>

\* main has returned 1 on an empty list
C14_Witness ==
    /\ urlsN = 0
    /\ mainPc = "exited"
    /\ exitCode = 1

\* ---- C15 ------------------------------------------------------------------
FailedStates == {"Exhausted", "Aborted"}

\* this step ends task t in a failed state
FailsNow(t) == ended[t] = "no" /\ ended'[t] \in FailedStates

\* the step in which a task fails touches nothing but that task and the
\* worker that ran it, and that worker goes back to its loop
FailureContainedStep ==
    \A t \in Tasks :
        FailsNow(t) =>
            /\ \E w \in Workers :
                  /\ wtask[w] = t
                  /\ wpc'[w] = "lock"
                  /\ \A v \in Workers \ {w} :
                        /\ wpc'[v] = wpc[v]
                        /\ wtask'[v] = wtask[v]
            /\ stop_' = stop_
            /\ tasks_' = tasks_
            /\ g_completed_downloads' = g_completed_downloads
            /\ \A u \in Tasks \ {t} : ended'[u] = ended[u] /\ deq'[u] = deq[u]
            /\ UNCHANGED mainVars

\* C15: a task ending Exhausted or Aborted does not terminate its worker,
\* does not set stop_ and does not remove any queued task; when the pool is
\* joined after some task failed, every task of the batch has been dequeued
\* (once) and has reached its own terminal state; and the process exits
\* with code 0 however many tasks failed.
C15_FailureContained ==
    /\ [][FailureContainedStep]_vars
    /\ []((PoolJoined /\ \E t \in Tasks : ended[t] \in FailedStates) =>
            \A u \in Tasks : deq[u] = 1 /\ ended[u] # "no")
    /\ []((mainPc = "exited" /\ \E t \in Tasks : ended[t] \in FailedStates) =>
            exitCode = 0)

\* the first task failed for good, the second one succeeded all the same,
\* and the process exited with code 0
C15_Witness ==
    /\ mainPc = "exited"
    /\ exitCode = 0
    /\ urlsN = 2
    /\ ended[1] = "Exhausted"
    /\ ended[2] = "Success"

\* ---- C16 ------------------------------------------------------------------
\* the counts of the "Downloaded" entries written so far
LoggedCounts == {dlLog[a].k : a \in 1..Len(dlLog)}
\* the counts workers hold between their increment and their log entry
PendingCounts == {current_completed[w] : w \in {v \in Workers : wpc[v] = "logdl"}}

\* C16: every "Downloaded k/N (p%)" entry carries the value its own task's
\* increment returned: the counts k of the entries are pairwise distinct,
\* each entry shows N and the percentage k/N x 100 of its own k, the counts
\* logged or about to be logged are exactly 1..counter, and once the pool is
\* joined the S entries carry exactly the counts 1..S.
C16_CountsFromOwnIncrement ==
    /\ \A a, b \in 1..Len(dlLog) : a # b => dlLog[a].k # dlLog[b].k
    /\ \A a \in 1..Len(dlLog) : dlLog[a] = DownloadedMsg(dlLog[a].k, urlsN)
    /\ LoggedCounts \cap PendingCounts = {}
    /\ LoggedCounts \cup PendingCounts = 1..g_completed_downloads
    /\ PoolJoined => /\ Len(dlLog) = SuccessCount
                     /\ LoggedCounts = 1..SuccessCount

\* two workers incremented the counter before either wrote its entry, and
\* both entries are now in the log
C16_Witness ==
    /\ PoolJoined
    /\ Len(dlLog) = 2
    /\ dlLog[1].k = 2
    /\ dlLog[1].pct = PercentUnit
    /\ dlLog[2].pct = PercentUnit \div 2

\* ---- C17 ------------------------------------------------------------------
\* the step that sets stop_ changes neither the queue nor any worker
StopKeepsWork ==
    (~stop_ /\ stop_') => tasks_' = tasks_ /\ wpc' = wpc /\ wtask' = wtask

\* a worker leaves its loop only from the test at the top of the loop, with
\* stop_ set and the queue empty, and never while it holds a task
ExitOnlyWhenDrained ==
    \A w \in Workers :
        (wpc[w] # "exited" /\ wpc'[w] = "exited") =>
            /\ stop_
            /\ tasks_ = << >>
            /\ wtask[w] = 0

\* the queue changes only by an emplace at the back or by a worker's dequeue
QueueOnlyGrowsOrIsDequeued ==
    tasks_' # tasks_ =>
        \/ \E f \in Tasks : tasks_' = Append(tasks_, f)
        \/ /\ tasks_ # << >>
           /\ tasks_' = Tail(tasks_)
           /\ deqLog' = Append(deqLog, Head(tasks_))

\* C17: closing the pool drains it. Setting stop_ discards nothing and
\* interrupts no worker; a worker exits only when stop_ is set and the queue
\* is empty, never with a task in hand; so, when the pool has at least one
\* worker, every accepted task has been dequeued and has ended, and the
\* queue is empty, once the join completes.
C17_CloseDrains ==
    /\ [][StopKeepsWork /\ ExitOnlyWhenDrained /\ QueueOnlyGrowsOrIsDequeued]_vars
    /\ []((PoolJoined /\ NUM_THREADS >= 1) =>
            /\ tasks_ = << >>
            /\ \A t \in Tasks : deq[t] = 1 /\ ended[t] # "no")

\* a task was still queued when stop_ was set, and the pool is now joined
\* with that task executed
C17_Witness ==
    /\ PoolJoined
    /\ NUM_THREADS >= 1
    /\ queuedAtStop # << >>
    /\ \A k \in 1..Len(queuedAtStop) : ended[queuedAtStop[k]] # "no"

\* ---- C18 ------------------------------------------------------------------
\* the workers executing task t
Executors(t) == {w \in Workers : wtask[w] = t}

\* worker w has an open FileHandle (on the destination of its task)
HoldsFile(w) == wtask[w] # 0 /\ FileHeld(wtask[w]) > 0

\* a step that acquires or releases a handle of task t is a step of the one
\* worker executing t
HandleStepByOwner ==
    \A t \in Tasks :
        <<curlAcq[t], curlRel[t], fileAcq[t], fileRel[t]>>' #
            <<curlAcq[t], curlRel[t], fileAcq[t], fileRel[t]>> =>
            \E w \in Workers :
                /\ Executors(t) = {w}
                /\ wpc'[w] # wpc[w]
                /\ \A v \in Workers \ {w} : wpc'[v] = wpc[v]

\* C18: per-task resources are exclusively owned. A task is executed by at
\* most one worker, holds at most one transfer handle and one file handle,
\* and holds them only while its worker executes it; two workers never
\* hold an open file on the same destination at the same time; and every
\* acquisition and release of a task's handle is done by the worker
\* executing that task.
C18_ExclusiveOwnership ==
    /\ [](\A t \in Tasks :
            /\ Cardinality(Executors(t)) <= 1
            /\ CurlHeld(t) \in 0..1
            /\ FileHeld(t) \in 0..1
            /\ (CurlHeld(t) > 0 \/ FileHeld(t) > 0) => Executors(t) # {})
    /\ [](\A w, v \in Workers :
            (w # v /\ HoldsFile(w) /\ HoldsFile(v)) =>
                Filename(wtask[w]) # Filename(wtask[v]))
    /\ [][HandleStepByOwner]_vars

\* two workers hold an open file at the same time
C18_Witness ==
    \E w, v \in Workers : w # v /\ HoldsFile(w) /\ HoldsFile(v)

\* ---- C19 ------------------------------------------------------------------
\* a call of enqueue passes its critical section in this step
MainEnqueues == mainPc = "enq_push" /\ mainPc' # "enq_push"
LateEnqueues == latePc = "idle" /\ latePc' = "returned"

\* the frame of a rejected call: one error entry, queue and workers untouched
Rejected == tasks_' = tasks_ /\ poolErrs' = poolErrs + 1 /\ wpc' = wpc

\* C19: a call of enqueue that finds stop_ set logs one error, leaves the
\* queue unchanged, wakes no worker and returns (its task is never queued
\* nor executed); a call that finds stop_ false appends exactly its task at
\* the tail and logs no error.
C19_EnqueueAfterStopRejected ==
    /\ [][(LateEnqueues /\ stop_) => Rejected]_vars
    /\ [][MainEnqueues =>
            IF stop_
            THEN Rejected /\ mainPc' # "enq_notify"
            ELSE /\ tasks_' = Append(tasks_, i + 1)
                 /\ poolErrs' = poolErrs
                 /\ mainPc' = "enq_notify"]_vars
    /\ [](\A k \in 1..Len(Accepted) : Accepted[k] # LateTask)
    /\ [](poolErrs = IF latePc = "returned" THEN 1 ELSE 0)

\* the late call was rejected with one error entry, and the pool went on to
\* run every task of the batch and was joined
C19_Witness ==
    /\ latePc = "returned"
    /\ poolErrs = 1
    /\ PoolJoined
    /\ urlsN = 2
    /\ \A t \in Tasks : ended[t] # "no"

\* ---- C20 ------------------------------------------------------------------
\* the counts of the "Downloaded" entries, in log order
LoggedSeq == [a \in 1..Len(dlLog) |-> dlLog[a].k]

\* C20 (as claimed): the "Downloaded k/N" entries appear in strictly
\* increasing order of k, so the last entry written carries the final value
\* of the progress counter.
C20_EntriesInIncreasingOrder ==
    /\ StrictlyIncreasing(LoggedSeq)
    /\ (PoolJoined /\ dlLog # << >>) =>
           dlLog[Len(dlLog)].k = g_completed_downloads

\* C20 (amended): the entries may appear in any order of k. No entry ever
\* carries a count above the counter's current value, and once the pool is
\* joined the largest count logged, wherever it stands in the log, is the
\* final value of the counter.
C20_LargestEntryIsFinalCount ==
    /\ \A a \in 1..Len(dlLog) : 1 <= dlLog[a].k /\ dlLog[a].k <= g_completed_downloads
    /\ (PoolJoined /\ g_completed_downloads > 0) =>
           \E a \in 1..Len(dlLog) : dlLog[a].k = g_completed_downloads

\* the log holds "Downloaded 2/2" before "Downloaded 1/2": the worker that
\* incremented first wrote its entry second
C20_Witness ==
    /\ PoolJoined
    /\ LoggedSeq = <<2, 1>>
    /\ g_completed_downloads = 2

============================================================================
